---------------------------- MODULE Spec2Model ----------------------------
(***************************************************************************)
(* Demographic data extractor: the DataProcessor of src/data_processor.py  *)
(* (the module src/app.py imports) and the fuzzy scorers it calls.         *)
(*                                                                         *)
(* A Python str is the sequence of its characters, each character a        *)
(* one-character string: "dob" is <<"d","o","b">>.  The scorers are those  *)
(* of fuzzywuzzy.fuzz on difflib.SequenceMatcher, computed as the library  *)
(* computes them (longest matching block first, then the pieces to its     *)
(* left and right).                                                        *)
(***************************************************************************)
EXTENDS Integers, Sequences, FiniteSets, TLC

(***************************************************************************)
(* Bounds of the model.                                                    *)
(***************************************************************************)
\* longest text handed to the classifier on its own
MaxLen == 3
\* most user keywords given to the constructor
MaxKeywords == 2
\* most rows of an input table
MaxRows == 2
\* most records of a processed table that is split into Excel files
MaxRecords == 41
\* largest records_per_file given to create_multiple_excel_files
MaxPerFile == 3

(***************************************************************************)
(* Characters and strings.                                                 *)
(***************************************************************************)
Range(s) == {s[i] : i \in DOMAIN s}

Max2(a, b) == IF a >= b THEN a ELSE b

\* code point of a character, for the order sorted() puts tokens in
Ord(c) ==
    CASE c = " " -> 32
      [] c = "-" -> 45
      [] c = "/" -> 47
      [] c = "A" -> 65
      [] c = "D" -> 68
      [] c = "N" -> 78
      [] c = "O" -> 79
      [] c = "T" -> 84
      [] c = "X" -> 88
      [] c = "_" -> 95
      [] c = "a" -> 97
      [] c = "b" -> 98
      [] c = "d" -> 100
      [] c = "e" -> 101
      [] c = "i" -> 105
      [] c = "n" -> 110
      [] c = "o" -> 111
      [] c = "r" -> 114
      [] c = "t" -> 116
      [] c = "u" -> 117
      [] c = "x" -> 120
      [] OTHER -> 127

\* str.lower() on one character
LowerChar(c) ==
    CASE c = "A" -> "a"
      [] c = "D" -> "d"
      [] c = "N" -> "n"
      [] c = "O" -> "o"
      [] c = "T" -> "t"
      [] c = "X" -> "x"
      [] OTHER -> c

\* str.lower()
Lower(s) == [i \in 1..Len(s) |-> LowerChar(s[i])]

\* str.isspace() on one character
IsSpace(c) == c = " "

\* the characters the regular expression \W does not match
IsWordChar(c) == c \notin {" ", "-", "/"}

\* Python's `k in t` on strings
IsSubstring(k, t) ==
    \E i \in 0..(Len(t) - Len(k)) : SubSeq(t, i + 1, i + Len(k)) = k

\* Python's slice s[lo:hi], 0-based and clipped to the string
Slice(s, lo, hi) ==
    SubSeq(s, lo + 1, IF hi > Len(s) THEN Len(s) ELSE hi)

\* str.strip()
RECURSIVE LStrip(_)
LStrip(s) ==
    IF s # <<>> /\ IsSpace(Head(s)) THEN LStrip(Tail(s)) ELSE s

RECURSIVE RStrip(_)
RStrip(s) ==
    IF s # <<>> /\ IsSpace(s[Len(s)])
    THEN RStrip(SubSeq(s, 1, Len(s) - 1))
    ELSE s

Strip(s) == RStrip(LStrip(s))

\* str.split(): the maximal runs of non-whitespace characters, in order
RECURSIVE SplitFrom(_, _, _)
SplitFrom(s, i, cur) ==
    IF i > Len(s)
    THEN IF cur = <<>> THEN <<>> ELSE <<cur>>
    ELSE IF IsSpace(s[i])
         THEN IF cur = <<>>
              THEN SplitFrom(s, i + 1, <<>>)
              ELSE <<cur>> \o SplitFrom(s, i + 1, <<>>)
         ELSE SplitFrom(s, i + 1, Append(cur, s[i]))

Split(s) == SplitFrom(s, 1, <<>>)

\* " ".join(tokens)
RECURSIVE Join(_)
Join(tokens) ==
    IF tokens = <<>> THEN <<>>
    ELSE IF Len(tokens) = 1 THEN tokens[1]
    ELSE tokens[1] \o <<" ">> \o Join(Tail(tokens))

\* s < t in Python's order on strings
RECURSIVE StrLess(_, _)
StrLess(s, t) ==
    IF t = <<>> THEN FALSE
    ELSE IF s = <<>> THEN TRUE
    ELSE IF Ord(Head(s)) # Ord(Head(t)) THEN Ord(Head(s)) < Ord(Head(t))
    ELSE StrLess(Tail(s), Tail(t))

\* sorted(S) for a set of strings
RECURSIVE SortedSet(_)
SortedSet(S) ==
    IF S = {} THEN <<>>
    ELSE LET m == CHOOSE x \in S : \A y \in S \ {x} : StrLess(x, y)
         IN  <<m>> \o SortedSet(S \ {m})

\* sorted(tokens) for a list of strings: equal tokens stay, in any order
RECURSIVE SortedList(_)
SortedList(tokens) ==
    IF tokens = <<>> THEN <<>>
    ELSE LET i == CHOOSE x \in DOMAIN tokens :
                      \A y \in DOMAIN tokens : ~StrLess(tokens[y], tokens[x])
             rest == [j \in 1..(Len(tokens) - 1) |->
                         IF j < i THEN tokens[j] ELSE tokens[j + 1]]
         IN  <<tokens[i]>> \o SortedList(rest)

(***************************************************************************)
(* difflib.SequenceMatcher, as fuzzywuzzy uses it (no junk; strings under  *)
(* 200 characters, so the autojunk heuristic is off).                      *)
(***************************************************************************)
\* number of equal characters from a[i], b[j] on (0-based), within ahi, bhi
RECURSIVE MatchLen(_, _, _, _, _, _)
MatchLen(a, b, i, j, ahi, bhi) ==
    IF i < ahi /\ j < bhi /\ a[i + 1] = b[j + 1]
    THEN 1 + MatchLen(a, b, i + 1, j + 1, ahi, bhi)
    ELSE 0

\* block m is the one find_longest_match prefers to block o: the longer one,
\* then the one starting earlier in a, then the one starting earlier in b
Preferred(m, o) ==
    \/ m[3] > o[3]
    \/ m[3] = o[3] /\ m[1] < o[1]
    \/ m[3] = o[3] /\ m[1] = o[1] /\ m[2] <= o[2]

\* the preferred block of a set of blocks
LongestOf(blocks) ==
    CHOOSE m \in blocks : \A o \in blocks : Preferred(m, o)

\* SequenceMatcher.find_longest_match: of the blocks <<i, j, size>> starting
\* in a[alo:ahi] and b[blo:bhi] the preferred one; it is <<alo, blo, 0>> when
\* no characters match
find_longest_match(a, b, alo, ahi, blo, bhi) ==
    LongestOf({<<p[1], p[2], MatchLen(a, b, p[1], p[2], ahi, bhi)>> :
                   p \in (alo..(ahi - 1)) \X (blo..(bhi - 1))})

\* the matching blocks of a[alo:ahi] and b[blo:bhi], in order: the longest
\* block m, with the blocks to its left and to its right
RECURSIVE BlocksIn(_, _, _, _, _, _)
RECURSIVE BlocksAround(_, _, _, _, _, _, _)
BlocksAround(a, b, alo, ahi, blo, bhi, m) ==
    IF m[3] = 0 THEN <<>>
    ELSE BlocksIn(a, b, alo, m[1], blo, m[2])
         \o <<m>>
         \o BlocksIn(a, b, m[1] + m[3], ahi, m[2] + m[3], bhi)

BlocksIn(a, b, alo, ahi, blo, bhi) ==
    IF alo >= ahi \/ blo >= bhi THEN <<>>
    ELSE BlocksAround(a, b, alo, ahi, blo, bhi,
                      find_longest_match(a, b, alo, ahi, blo, bhi))

\* SequenceMatcher.get_matching_blocks: the blocks, then the (la, lb, 0) end
get_matching_blocks(a, b) ==
    Append(BlocksIn(a, b, 0, Len(a), 0, Len(b)), <<Len(a), Len(b), 0>>)

RECURSIVE SumSizes(_)
SumSizes(blocks) ==
    IF blocks = <<>> THEN 0 ELSE Head(blocks)[3] + SumSizes(Tail(blocks))

\* the number of matched characters M of SequenceMatcher.ratio() = 2M/T
Matches(a, b) == SumSizes(get_matching_blocks(a, b))

\* utils.intr(n / d): Python 3 round(), half to even
intr(n, d) ==
    LET q == n \div d
        r == n % d
    IN  IF 2 * r < d THEN q
        ELSE IF 2 * r > d THEN q + 1
        ELSE IF q % 2 = 0 THEN q ELSE q + 1


(***************************************************************************)
(* fuzzywuzzy.fuzz: the four scorers _fuzzy_match_demographic selects.      *)
(***************************************************************************)
\* fuzz.ratio: 0 for an empty string, else round(100 * 2M/T)
ratio(s1, s2) ==
    IF Len(s1) = 0 \/ Len(s2) = 0 THEN 0
    ELSE intr(200 * Matches(s1, s2), Len(s1) + Len(s2))

\* the largest number of a set
MaxOf(S) == CHOOSE x \in S : \A y \in S : y <= x

\* the score of the shorter string against one window of the longer one:
\* 100 when the ratio 2m/t is above 0.995
WindowScore(m, t) ==
    IF 2000 * m > 995 * t THEN 100 ELSE intr(200 * m, t)

\* the window of the longer string that starts at long_start
Window(longer, long_start, length) ==
    Slice(longer, long_start, long_start + length)

\* the score partial_ratio gives one matching block: the shorter string
\* against the window of the longer one that the block aligns it with
PartialBlockScore(shorter, long_substr) ==
    WindowScore(Matches(shorter, long_substr), Len(shorter) + Len(long_substr))

\* partial_ratio once the shorter string is known: the best window score
\* over the matching blocks
BestWindowScore(shorter, longer) ==
    MaxOf({PartialBlockScore(shorter,
                             Window(longer, Max2(block[2] - block[1], 0),
                                    Len(shorter))) :
               block \in Range(get_matching_blocks(shorter, longer))})

\* fuzz.partial_ratio
partial_ratio(s1, s2) ==
    IF Len(s1) = 0 \/ Len(s2) = 0 THEN 0
    ELSE IF Len(s1) <= Len(s2) THEN BestWindowScore(s1, s2)
    ELSE BestWindowScore(s2, s1)

\* utils.full_process: non-word characters to spaces, lower(), strip()
full_process(s) ==
    Strip(Lower([i \in 1..Len(s) |-> IF IsWordChar(s[i]) THEN s[i] ELSE " "]))

\* fuzz._process_and_sort
process_and_sort(s) == Strip(Join(SortedList(Split(full_process(s)))))

\* fuzz.token_sort_ratio
token_sort_ratio(s1, s2) == ratio(process_and_sort(s1), process_and_sort(s2))

\* the three comparisons of token_set_ratio, on the sorted intersection and
\* the two sorted remainders joined to it
BestOfSets(sect, combined_1to2, combined_2to1) ==
    Max2(ratio(sect, combined_1to2),
         Max2(ratio(sect, combined_2to1),
              ratio(combined_1to2, combined_2to1)))

\* token_set_ratio on the two token sets
TokenSets(sorted_sect, sorted_1to2, sorted_2to1) ==
    BestOfSets(Strip(sorted_sect),
               Strip(sorted_sect \o <<" ">> \o sorted_1to2),
               Strip(sorted_sect \o <<" ">> \o sorted_2to1))

\* token_set_ratio on the processed strings
ProcessedTokenSetRatio(p1, p2) ==
    IF Len(p1) = 0 \/ Len(p2) = 0 THEN 0
    ELSE TokenSets(Join(SortedSet(Range(Split(p1)) \cap Range(Split(p2)))),
                   Join(SortedSet(Range(Split(p1)) \ Range(Split(p2)))),
                   Join(SortedSet(Range(Split(p2)) \ Range(Split(p1)))))

\* fuzz.token_set_ratio
token_set_ratio(s1, s2) ==
    ProcessedTokenSetRatio(full_process(s1), full_process(s2))

(***************************************************************************)
(* Python values.  A cell of a table is a str, NaN (a missing value) or a  *)
(* bool; NaN, True and False are one-element sequences no str is equal to. *)
(***************************************************************************)
NaN == <<"NaN">>
True == <<"True">>
False == <<"False">>

\* str(value)
Str(v) ==
    IF v = NaN THEN <<"n", "a", "n">>
    ELSE IF v = True THEN <<"T", "r", "u", "e">>
    ELSE IF v = False THEN <<"F", "a", "l", "s", "e">>
    ELSE v

\* the placeholder process_files writes into table_name
NA == <<"N", "/", "A">>

(***************************************************************************)
(* pandas.DataFrame: the column labels in order, the index labels in       *)
(* order, and one row (column label -> cell) per index label.              *)
(***************************************************************************)
DataFrame(columns, index, rows) ==
    [columns |-> columns, index |-> index, rows |-> rows]

\* pd.DataFrame()
EmptyDataFrame == DataFrame(<<>>, <<>>, <<>>)

\* len(df)
DfLen(df) == Len(df.rows)

\* df.empty
DfEmpty(df) == Len(df.rows) = 0 \/ Len(df.columns) = 0

\* the entries of a sequence at the positions where a boolean mask is True,
\* in order, from position i on
RECURSIVE Selected(_, _, _)
Selected(seq, mask, i) ==
    IF i > Len(seq) THEN <<>>
    ELSE (IF mask[i] THEN <<seq[i]>> ELSE <<>>) \o Selected(seq, mask, i + 1)

\* a sequence last to first
Reversed(seq) == [n \in 1..Len(seq) |-> seq[Len(seq) + 1 - n]]

\* SelectRows that loses the first row of the frame
SelectRows_SkipsFirst(df, mask) ==
    DataFrame(df.columns,
              Selected(df.index, mask, 2),
              Selected(df.rows, mask, 2))

\* SelectRows with the selected rows taken last to first
SelectRows_Reversed(df, mask) ==
    DataFrame(df.columns,
              Reversed(Selected(df.index, mask, 1)),
              Reversed(Selected(df.rows, mask, 1)))

\* df[mask].copy(): the rows the mask selects, with their index labels
SelectRows(df, mask) ==
    DataFrame(df.columns,
              Selected(df.index, mask, 1),
              Selected(df.rows, mask, 1))

\* mask.any()
MaskAny(mask) == \E i \in DOMAIN mask : mask[i]

\* df[name] = value: overwrite the column when the label exists, else add it
\* as the last column
SetColumn(df, name, value) ==
    DataFrame(IF name \in Range(df.columns) THEN df.columns
              ELSE Append(df.columns, name),
              df.index,
              [n \in 1..Len(df.rows) |->
                  [c \in (DOMAIN df.rows[n]) \cup {name} |->
                      IF c = name THEN value ELSE df.rows[n][c]]])

(***************************************************************************)
(* DataProcessor.                                                          *)
(***************************************************************************)
\* self.demographic_data_types: the entries of the built-in list that are
\* at most six characters of the model's alphabet
demographic_data_types ==
    << <<"d", "o", "b">>, <<"t", "a", "x", " ", "i", "d">> >>

\* DataProcessor.__init__
NewDataProcessor(demographic_keywords, fuzzy_algorithm, fuzzy_threshold) ==
    [demographic_keywords |->
         [n \in 1..Len(demographic_keywords) |-> Lower(demographic_keywords[n])],
     fuzzy_algorithm |-> fuzzy_algorithm,
     fuzzy_threshold |-> fuzzy_threshold,
     demographic_data_types |-> demographic_data_types]

\* Score with the else branch scoring by partial_ratio
Score_UnknownIsPartial(fuzzy_algorithm, a, b) ==
    CASE fuzzy_algorithm = "ratio" -> ratio(a, b)
      [] fuzzy_algorithm = "partial_ratio" -> partial_ratio(a, b)
      [] fuzzy_algorithm = "token_sort_ratio" -> token_sort_ratio(a, b)
      [] fuzzy_algorithm = "token_set_ratio" -> token_set_ratio(a, b)
      [] OTHER -> partial_ratio(a, b)

\* the if/elif chain that picks the scorer; any other name scores by ratio
Score(fuzzy_algorithm, a, b) ==
    CASE fuzzy_algorithm = "ratio" -> ratio(a, b)
      [] fuzzy_algorithm = "partial_ratio" -> partial_ratio(a, b)
      [] fuzzy_algorithm = "token_sort_ratio" -> token_sort_ratio(a, b)
      [] fuzzy_algorithm = "token_set_ratio" -> token_set_ratio(a, b)
      [] OTHER -> ratio(a, b)

\* MatchFrom with the return of False inside the loop: only keyword number
\* n is scored
MatchFrom_FirstKeywordOnly(self, text_lower, keywords, n) ==
    /\ n <= Len(keywords)
    /\ Score(self.fuzzy_algorithm, text_lower, Lower(keywords[n]))
           >= self.fuzzy_threshold

\* the body of the loop over keywords, from keyword number n on
RECURSIVE MatchFrom(_, _, _, _)
MatchFrom(self, text_lower, keywords, n) ==
    IF n > Len(keywords) THEN FALSE
    ELSE LET keyword_lower == Lower(keywords[n])
             score == Score(self.fuzzy_algorithm, text_lower, keyword_lower)
         IN  IF score >= self.fuzzy_threshold THEN TRUE
             ELSE MatchFrom(self, text_lower, keywords, n + 1)

\* DataProcessor._fuzzy_match_demographic
fuzzy_match_demographic(self, text, keywords) ==
    MatchFrom(self, Lower(text), keywords, 1)

\* the test both row scans make before classifying a cell's text
Classifiable(cell_text) ==
    cell_text # <<>> /\ Lower(cell_text) # <<"n", "a", "n">>

\* DataProcessor._identify_demographic_rows_by_description
identify_demographic_rows_by_description(self, columns_df, attr_desc_col) ==
    LET all_keywords == self.demographic_data_types \o self.demographic_keywords
    IN  [n \in 1..Len(columns_df.rows) |->
            LET row == columns_df.rows[n]
                desc_text == Str(IF attr_desc_col \in DOMAIN row
                                 THEN row[attr_desc_col] ELSE <<>>)
            IN  Classifiable(desc_text)
                /\ fuzzy_match_demographic(self, desc_text, all_keywords)]

\* the fallback's inner loop: the columns of one row from column number c on
RECURSIVE RowHasDemographicCell(_, _, _, _)
RowHasDemographicCell(self, columns, row, c) ==
    IF c > Len(columns) THEN FALSE
    ELSE LET cell_value == Str(row[columns[c]])
         IN  IF Classifiable(cell_value)
                /\ fuzzy_match_demographic(self, cell_value,
                       self.demographic_data_types \o self.demographic_keywords)
             THEN TRUE
             ELSE RowHasDemographicCell(self, columns, row, c + 1)

\* the fallback mask: rows with a demographic cell in any column
FallbackMask(self, columns_df) ==
    [n \in 1..Len(columns_df.rows) |->
        RowHasDemographicCell(self, columns_df.columns, columns_df.rows[n], 1)]

\* extract_demographic_data with the whole frame returned when no row is
\* demographic
extract_demographic_data_KeepsAll(self, columns_df) ==
    LET by_description ==
            identify_demographic_rows_by_description(self, columns_df,
                                                     "attr_description")
    IN  IF "attr_description" \in Range(columns_df.columns) /\ MaskAny(by_description)
        THEN SelectRows(columns_df, by_description)
        ELSE LET demographic_mask == FallbackMask(self, columns_df)
             IN  IF MaskAny(demographic_mask)
                 THEN SelectRows(columns_df, demographic_mask)
                 ELSE columns_df

\* DataProcessor._extract_demographic_data
extract_demographic_data(self, columns_df) ==
    LET by_description ==
            identify_demographic_rows_by_description(self, columns_df,
                                                     "attr_description")
    IN  IF "attr_description" \in Range(columns_df.columns) /\ MaskAny(by_description)
        THEN SelectRows(columns_df, by_description)
        ELSE LET demographic_mask == FallbackMask(self, columns_df)
             IN  IF MaskAny(demographic_mask)
                 THEN SelectRows(columns_df, demographic_mask)
                 ELSE EmptyDataFrame

\* merged_df['matched'].sum()
RECURSIVE CountTrue(_, _)
CountTrue(rows, col) ==
    IF rows = <<>> THEN 0
    ELSE (IF Head(rows)[col] = True THEN 1 ELSE 0) + CountTrue(Tail(rows), col)

\* the columns of a frame that are not one of the two added ones
RECURSIVE OriginalColumns(_)
OriginalColumns(columns) ==
    IF columns = <<>> THEN <<>>
    ELSE IF Head(columns) \in {"table_name", "matched"}
         THEN OriginalColumns(Tail(columns))
         ELSE <<Head(columns)>> \o OriginalColumns(Tail(columns))

\* get_processing_summary that counts every record as unmatched as well
get_processing_summary_AllUnmatched(self, merged_df) ==
    [total_records |-> DfLen(merged_df),
     original_columns |-> OriginalColumns(merged_df.columns),
     original_column_count |-> Len(OriginalColumns(merged_df.columns)),
     demographic_columns |-> OriginalColumns(merged_df.columns),
     demographic_column_count |-> Len(OriginalColumns(merged_df.columns)),
     matched_records |-> CountTrue(merged_df.rows, "matched"),
     unmatched_records |-> DfLen(merged_df),
     processing_algorithm |-> self.fuzzy_algorithm,
     processing_threshold |-> self.fuzzy_threshold]

\* DataProcessor.get_processing_summary
get_processing_summary(self, merged_df) ==
    LET original_columns == OriginalColumns(merged_df.columns)
        matched == IF "matched" \in Range(merged_df.columns)
                   THEN CountTrue(merged_df.rows, "matched")
                   ELSE DfLen(merged_df)
    IN  [total_records |-> DfLen(merged_df),
         original_columns |-> original_columns,
         original_column_count |-> Len(original_columns),
         demographic_columns |-> original_columns,
         demographic_column_count |-> Len(original_columns),
         matched_records |-> matched,
         unmatched_records |-> DfLen(merged_df) - matched,
         processing_algorithm |-> self.fuzzy_algorithm,
         processing_threshold |-> self.fuzzy_threshold]

(***************************************************************************)
(* Uploaded files: no file, a file pandas cannot read, or a file pandas    *)
(* reads into a frame.                                                     *)
(***************************************************************************)
NoFile == [kind |-> "none", df |-> EmptyDataFrame]
UnreadableFile == [kind |-> "unreadable", df |-> EmptyDataFrame]
ReadableFile(df) == [kind |-> "file", df |-> df]

\* ExtractionPercentage of the rows that were not extracted
ExtractionPercentage_OfTheRest(demographic_rows_extracted, original_columns_total) ==
    IF original_columns_total > 0
    THEN intr((original_columns_total - demographic_rows_extracted) * 10000,
              original_columns_total)
    ELSE 0

\* round(demographic_rows_extracted / original_columns_total * 100, 2), in
\* hundredths of a percent
ExtractionPercentage(demographic_rows_extracted, original_columns_total) ==
    IF original_columns_total > 0
    THEN intr(demographic_rows_extracted * 10000, original_columns_total)
    ELSE 0

\* AddTableColumns with matched set to False
AddTableColumns_Unmatched(demographic_data) ==
    SetColumn(SetColumn(demographic_data, "table_name", NA), "matched", False)

\* AddTableColumns on a frame whose repeated rows were dropped first
AddTableColumns_DropDuplicates(demographic_data) ==
    LET first == [n \in 1..Len(demographic_data.rows) |->
                     \A m \in 1..(n - 1) :
                         demographic_data.rows[m] # demographic_data.rows[n]]
    IN  SetColumn(SetColumn(SelectRows(demographic_data, first),
                            "table_name", NA),
                  "matched", True)

\* the two assignments after the copy: the merge step of process_files
AddTableColumns(demographic_data) ==
    SetColumn(SetColumn(demographic_data, "table_name", NA), "matched", True)

\* process_files up to its local demographic_data: the extraction from the
\* columns frame, empty when reading a file raised before it
ExtractedBy(self, table_file, columns_file) ==
    IF columns_file.kind = "file" /\ table_file.kind # "unreadable"
    THEN extract_demographic_data(self, columns_file.df)
    ELSE EmptyDataFrame

\* ReturnedFor without the except clause: the exception of an unreadable
\* file leaves process_files
ReturnedFor_Uncaught(self, table_file, columns_file, demographic_data) ==
    IF columns_file.kind # "file"
    THEN [raised |-> "Error reading columns data"]
    ELSE IF table_file.kind = "unreadable"
    THEN [raised |-> "Error reading table data"]
    ELSE IF DfEmpty(demographic_data)
    THEN [success |-> FALSE,
          error |-> "No demographic data found in columns file"]
    ELSE
    LET original_columns_total == DfLen(columns_file.df)
        original_table_total ==
            IF table_file.kind = "file" THEN DfLen(table_file.df) ELSE 0
        demographic_rows_extracted == DfLen(demographic_data)
        non_demographic_rows ==
            original_columns_total - demographic_rows_extracted
        merged_data == AddTableColumns(demographic_data)
        summary == get_processing_summary(self, merged_data)
        added ==
            [original_columns_total |-> original_columns_total,
             original_table_total |-> original_table_total,
             demographic_rows_extracted |-> demographic_rows_extracted,
             non_demographic_rows |-> non_demographic_rows,
             extraction_percentage |->
                 ExtractionPercentage(demographic_rows_extracted,
                                      original_columns_total)]
    IN  [success |-> TRUE, data |-> merged_data, stats |-> added @@ summary]

\* process_files from its local demographic_data on: what it returns
ReturnedFor(self, table_file, columns_file, demographic_data) ==
    IF columns_file.kind # "file"
    THEN [success |-> FALSE,
          error |-> "Processing error: Error reading columns data"]
    ELSE IF table_file.kind = "unreadable"
    THEN [success |-> FALSE,
          error |-> "Processing error: Error reading table data"]
    ELSE IF DfEmpty(demographic_data)
    THEN [success |-> FALSE,
          error |-> "No demographic data found in columns file"]
    ELSE
    LET original_columns_total == DfLen(columns_file.df)
        original_table_total ==
            IF table_file.kind = "file" THEN DfLen(table_file.df) ELSE 0
        demographic_rows_extracted == DfLen(demographic_data)
        non_demographic_rows ==
            original_columns_total - demographic_rows_extracted
        merged_data == AddTableColumns(demographic_data)
        summary == get_processing_summary(self, merged_data)
        added ==
            [original_columns_total |-> original_columns_total,
             original_table_total |-> original_table_total,
             demographic_rows_extracted |-> demographic_rows_extracted,
             non_demographic_rows |-> non_demographic_rows,
             extraction_percentage |->
                 ExtractionPercentage(demographic_rows_extracted,
                                      original_columns_total)]
    IN  [success |-> TRUE, data |-> merged_data, stats |-> added @@ summary]

\* DataProcessor.process_files
process_files(self, table_file, columns_file) ==
    ReturnedFor(self, table_file, columns_file,
                ExtractedBy(self, table_file, columns_file))

(***************************************************************************)
(* The inputs the model draws.                                             *)
(***************************************************************************)
\* all strings of at most n characters of the set chars
RECURSIVE StringsUpTo(_, _)
StringsUpTo(chars, n) ==
    IF n = 0 THEN {<<>>}
    ELSE LET shorter == StringsUpTo(chars, n - 1)
         IN  shorter \cup {Append(s, c) : s \in shorter, c \in chars}

\* all lists of at most n elements of the set S
RECURSIVE ListsUpTo(_, _)
ListsUpTo(S, n) ==
    IF n = 0 THEN {<<>>}
    ELSE LET shorter == ListsUpTo(S, n - 1)
         IN  shorter \cup {Append(l, x) : l \in shorter, x \in S}

TextChars == {"D", "o", " "}
Texts == StringsUpTo(TextChars, MaxLen)

KeywordStrings == { <<"D", "o">>, <<"d", "o", "b">>, <<"o", " ", "d">> }
KeywordLists == ListsUpTo(KeywordStrings, MaxKeywords)

\* the four names the selectbox offers, and one it does not
Algorithms ==
    {"ratio", "partial_ratio", "token_sort_ratio", "token_set_ratio", "jaro"}
Thresholds == {0, 80, 100}

\* the processors the classifier is run with
ClassifierProcessors ==
    {NewDataProcessor(<<>>, a, t) : a \in Algorithms, t \in Thresholds}

\* the processors files are processed with
FileProcessors ==
    { NewDataProcessor(<<>>, "ratio", 80),
      NewDataProcessor(<<>>, "ratio", 100),
      NewDataProcessor(<< <<"D", "o">> >>, "ratio", 100),
      NewDataProcessor(<<>>, "partial_ratio", 100) }

\* the values a column of an uploaded columns file holds
ColumnValues(c) ==
    CASE c = "attr_description" ->
             {NaN, <<"d", "o", "b">>, <<"d", "o">>, <<" ">>}
      [] c = "attr_name" -> {NaN, <<"d", "o", "b">>, <<"x">>}
      [] c = "storage_id" -> {<<"1">>, <<"2">>}
      [] c = "table_name" -> {<<"A">>, <<"d", "o", "b">>}
      [] OTHER -> {NaN}

\* the column layouts of an uploaded columns file
Schemas ==
    { <<"attr_description">>,
      <<"attr_name">>,
      <<"storage_id", "attr_description">>,
      <<"table_name", "attr_description">> }

\* the rows of a layout: every column with one of its values
RowsOf(columns) ==
    {r \in [Range(columns) -> UNION {ColumnValues(c) : c \in Range(columns)}] :
        \A c \in Range(columns) : r[c] \in ColumnValues(c)}

\* pd.read_csv / pd.read_excel: the frame of a file, indexed 0..n-1
ReadFrame(columns, rows) ==
    DataFrame(columns, [n \in 1..Len(rows) |-> n - 1], rows)

ColumnsFrames ==
    UNION {{ReadFrame(columns, rows) : rows \in ListsUpTo(RowsOf(columns), MaxRows)} :
              columns \in Schemas}

ColumnsFiles == {UnreadableFile} \cup {ReadableFile(df) : df \in ColumnsFrames}

\* the rows of an uploaded table file: a storage_id and its table_name
TableRows ==
    { [storage_id |-> <<"1">>, table_name |-> <<"A">>],
      [storage_id |-> <<"1">>, table_name |-> <<"B">>] }

TableFrames ==
    {ReadFrame(<<"storage_id", "table_name">>, rows) :
        rows \in ListsUpTo(TableRows, MaxRows)}

\* table files that lack the table_name or the storage_id column
IncompleteTableFrames ==
    { ReadFrame(<<"storage_id">>, << [storage_id |-> <<"1">>] >>),
      ReadFrame(<<"table_name">>, << [table_name |-> <<"A">>] >>) }

TableFiles ==
    {NoFile, UnreadableFile}
    \cup {ReadableFile(df) : df \in TableFrames \cup IncompleteTableFrames}

(***************************************************************************)
(* Calls.  Every call of process_files has its own locals; the calls of    *)
(* one processor share the processor only.                                 *)
(***************************************************************************)
\* the result of a call that has not returned, and of a button not pressed
NoResult == [pending |-> TRUE]

\* the locals of a call that was just entered with its two files
NewCall(table_file, columns_file) ==
    [table_file |-> table_file, columns_file |-> columns_file,
     demographic_data |-> EmptyDataFrame, result |-> NoResult,
     pc |-> "called"]

\* Locals with one set of locals for all calls
Locals_Shared(calls, i) == calls[1]

\* the locals call i reads
Locals(calls, i) == calls[i]

\* SelfAfter of a call that uses up the keywords it was constructed with
SelfAfter_ConsumesKeywords(self) == [self EXCEPT !.demographic_keywords = <<>>]

\* the processor when a call returns: process_files and the methods it
\* calls read self and assign to none of its attributes
SelfAfter(self) == self

\* a columns frame with the one column attr_description
DescriptionFrame(descriptions) ==
    ReadFrame(<<"attr_description">>,
              [n \in 1..Len(descriptions) |->
                  [attr_description |-> descriptions[n]]])

\* the columns files of the calls
CallColumnsFiles ==
    {UnreadableFile}
    \cup {ReadableFile(DescriptionFrame(descriptions)) :
             descriptions \in { <<>>, <<NaN>>, << <<"d", "o", "b">> >>,
                                << <<"d", "o">> >>,
                                << <<"d", "o">>, <<"d", "o", "b">> >>,
                                << <<"d", "o", "b">>, NaN >> }}

\* the table files of the calls
CallTableFiles == {NoFile, UnreadableFile}

\* the processors the calls share
CallProcessors ==
    { NewDataProcessor(<<>>, "ratio", 80),
      NewDataProcessor(<< <<"D", "o">> >>, "ratio", 100) }

\* the number of calls in flight
Callers == 2

(***************************************************************************)
(* Objects.  The frames process_files works on are objects: the heap is    *)
(* the sequence of the frames allocated so far, a reference is a position  *)
(* in it (0 is an unbound name), and an assignment to a column changes the *)
(* object in place.                                                        *)
(***************************************************************************)
\* the names process_files binds, all unbound
NoRefs == [columns_df |-> 0, table_df |-> 0, demographic_data |-> 0,
           merged_data |-> 0]

\* NewObject that hands back the source object itself when the new frame
\* has the source's contents
NewObject_ViewOfSource(heap, frame, source) ==
    IF source > 0 /\ heap[source] = frame
    THEN [heap |-> heap, ref |-> source]
    ELSE [heap |-> Append(heap, frame), ref |-> Len(heap) + 1]

\* df[mask].copy(), df.copy() and pd.DataFrame(): a new object with the
\* frame computed from the source object
NewObject(heap, frame, source) ==
    [heap |-> Append(heap, frame), ref |-> Len(heap) + 1]

\* df[name] = value on the object a name refers to
AssignColumn(heap, ref, name, value) ==
    [heap EXCEPT ![ref] = SetColumn(@, name, value)]

\* the objects after the reads: the columns frame, then the table frame
ObjectsRead(table_file, columns_file) ==
    IF columns_file.kind # "file" THEN <<>>
    ELSE <<columns_file.df>>
         \o (IF table_file.kind = "file" THEN <<table_file.df>> ELSE <<>>)

\* the names bound by the reads
RefsRead(table_file, columns_file) ==
    IF columns_file.kind # "file" THEN NoRefs
    ELSE [NoRefs EXCEPT !.columns_df = 1,
                        !.table_df = IF table_file.kind = "file" THEN 2 ELSE 0]

\* merged_data = demographic_data.copy() and the two assignments to it
ObjectsMerged(copied, refs) ==
    [heap |-> AssignColumn(AssignColumn(copied.heap, copied.ref,
                                        "table_name", NA),
                           copied.ref, "matched", True),
     refs |-> [refs EXCEPT !.merged_data = copied.ref]]

\* process_files from the extraction on: it returns when the extracted
\* frame is empty and makes merged_data otherwise
ObjectsExtracted(extracted, refs) ==
    IF DfEmpty(extracted.heap[extracted.ref])
    THEN [heap |-> extracted.heap,
          refs |-> [refs EXCEPT !.demographic_data = extracted.ref]]
    ELSE ObjectsMerged(NewObject(extracted.heap, extracted.heap[extracted.ref],
                                 extracted.ref),
                       [refs EXCEPT !.demographic_data = extracted.ref])

\* the heap and the bound names when process_files returns
ObjectsAfter(table_file, columns_file, demographic_data) ==
    IF columns_file.kind # "file" \/ table_file.kind = "unreadable"
    THEN [heap |-> ObjectsRead(NoFile, columns_file),
          refs |-> RefsRead(NoFile, columns_file)]
    ELSE ObjectsExtracted(
             NewObject(ObjectsRead(table_file, columns_file), demographic_data,
                       IF DfLen(demographic_data) > 0 THEN 1 ELSE 0),
             RefsRead(table_file, columns_file))

(***************************************************************************)
(* ReportGenerator.create_multiple_excel_files.  An optional int is the    *)
(* sequence of at most one integer: <<>> is None.  An Excel file is its     *)
(* number, the records of its Demographic_Data sheet and the values of its *)
(* Summary sheet.                                                          *)
(***************************************************************************)
\* processed_data.iloc[lo:hi]
Iloc(df, lo, hi) ==
    DataFrame(df.columns,
              SubSeq(df.index, lo + 1, IF hi > DfLen(df) THEN DfLen(df) ELSE hi),
              SubSeq(df.rows, lo + 1, IF hi > DfLen(df) THEN DfLen(df) ELSE hi))

\* chunk_data[[col for col in chunk_data.columns if col != 'matched']] as
\* to_excel(index=False) writes it: the records without the matched cell
RECURSIVE SheetRecords(_)
SheetRecords(rows) ==
    IF rows = <<>> THEN <<>>
    ELSE <<[c \in (DOMAIN Head(rows)) \ {"matched"} |-> Head(rows)[c]]>>
         \o SheetRecords(Tail(rows))

\* RecordsPerFile without the extra record for a remainder
RecordsPerFile_NoRemainder(total_records, records_per_file) ==
    IF records_per_file = <<>>
    THEN Max2(1, total_records \div 20)
    ELSE records_per_file[1]

\* the records per file: the argument, or for None the quotient by 20, at
\* least 1, and one more when the division leaves a remainder
RecordsPerFile(total_records, records_per_file) ==
    IF records_per_file = <<>>
    THEN Max2(1, total_records \div 20)
         + (IF total_records % 20 > 0 THEN 1 ELSE 0)
    ELSE records_per_file[1]

\* the file the loop body builds for the chunk that starts at record i
ExcelFile(processed_data, per_file, i) ==
    [file_num |-> (i \div per_file) + 1,
     records |-> SheetRecords(Iloc(processed_data, i, i + per_file).rows),
     total_records_in_file |-> DfLen(Iloc(processed_data, i, i + per_file)),
     first_record |-> i + 1,
     last_record |-> IF i + per_file <= DfLen(processed_data)
                     THEN i + per_file ELSE DfLen(processed_data),
     original_columns_preserved |->
         Cardinality(Range(processed_data.columns) \ {"table_name", "matched"})]

\* the loop for i in range(0, total_records, records_per_file), from i on;
\* an empty chunk is skipped
RECURSIVE FilesFrom(_, _, _)
FilesFrom(processed_data, per_file, i) ==
    IF i >= DfLen(processed_data) THEN <<>>
    ELSE (IF DfEmpty(Iloc(processed_data, i, i + per_file)) THEN <<>>
          ELSE <<ExcelFile(processed_data, per_file, i)>>)
         \o FilesFrom(processed_data, per_file, i + per_file)

\* ReportGenerator.create_multiple_excel_files
create_multiple_excel_files(processed_data, records_per_file) ==
    FilesFrom(processed_data,
              RecordsPerFile(DfLen(processed_data), records_per_file), 0)

\* str(n) for a natural number
RECURSIVE Digits(_)
Digits(n) ==
    IF n < 10
    THEN <<CASE n = 0 -> "0" [] n = 1 -> "1" [] n = 2 -> "2" [] n = 3 -> "3"
             [] n = 4 -> "4" [] n = 5 -> "5" [] n = 6 -> "6" [] n = 7 -> "7"
             [] n = 8 -> "8" [] n = 9 -> "9">>
    ELSE Digits(n \div 10) \o Digits(n % 10)

\* a processed table of n records, each with its own storage_id
ProcessedFrame(n) ==
    AddTableColumns(
        ReadFrame(<<"storage_id", "attr_description">>,
                  [k \in 1..n |-> [storage_id |-> Digits(k),
                                   attr_description |-> <<"d", "o", "b">>]]))

\* the processed tables and the records_per_file arguments of the model
ProcessedFrames == {ProcessedFrame(n) : n \in 0..MaxRecords}
RecordsPerFileArguments == {<<>>} \cup {<<k>> : k \in 1..MaxPerFile}

(***************************************************************************)
(* The Streamlit session.  st.session_state is a dictionary: a function    *)
(* whose domain is the set of keys that are present.                       *)
(***************************************************************************)
\* Python's None where a frame or a dictionary is stored
None == [none |-> TRUE]

\* d[k] = v
Put(d, k, v) == [x \in DOMAIN d \cup {k} |-> IF x = k THEN v ELSE d[x]]

\* del d[k]
Del(d, k) == [x \in DOMAIN d \ {k} |-> d[x]]

\* d.get(k, default)
Get(d, k, default) == IF k \in DOMAIN d THEN d[k] ELSE default

\* the part of d under the keys K
Under(d, K) == [x \in DOMAIN d \cap K |-> d[x]]

\* the session after the initialisation at the top of main
NewSession == [processed_data |-> None, processing_complete |-> FALSE]

\* the rows and columns of the report's sample data table
SampleRows == 10
SampleColumns == 8

\* ReportGenerator._create_sample_data_table: the first rows, each with its
\* first columns
sample_data_table(processed_data) ==
    [n \in 1..Len(Iloc(processed_data, 0, SampleRows).rows) |->
        [c \in Range(SubSeq(processed_data.columns, 1,
                            IF Len(processed_data.columns) > SampleColumns
                            THEN SampleColumns
                            ELSE Len(processed_data.columns))) |->
            processed_data.rows[n][c]]]

\* round(matched_records / final_records * 100, 1), in tenths of a percent
MatchRate(matched_records, final_records) ==
    IF final_records > 0 THEN intr(matched_records * 1000, final_records) ELSE 0

\* ReportGenerator.generate_report: what the template is rendered with,
\* but for the date of the rendering and the charts and tables drawn from
\* the same arguments
generate_report(processed_data, stats, fuzzy_algorithm, fuzzy_threshold) ==
    [stats |-> stats,
     fuzzy_algorithm |-> fuzzy_algorithm,
     fuzzy_threshold |-> fuzzy_threshold,
     detection_method |->
         IF "attr_description" \in Range(processed_data.columns)
         THEN "attr_description column analysis"
         ELSE "Column name pattern matching",
     match_rate |-> MatchRate(Get(stats, "matched_records", 0),
                              DfLen(processed_data)),
     final_records |-> DfLen(processed_data),
     unmatched_records |->
         DfLen(processed_data) - Get(stats, "matched_records", 0),
     sample_data_table |-> sample_data_table(processed_data)]

\* the Process Data handler after process_files returned: a success is
\* stored under six keys, a failure is only reported
AfterProcess(session, result, fuzzy_algorithm, fuzzy_threshold, table_file) ==
    IF result.success
    THEN Put(Put(Put(Put(Put(Put(session,
             "processed_data", result.data),
             "processing_stats", result.stats),
             "fuzzy_algorithm", fuzzy_algorithm),
             "fuzzy_threshold", fuzzy_threshold),
             "table_file_provided", table_file.kind # "none"),
             "processing_complete", TRUE)
    ELSE session

\* the results section is shown
ResultsShown(session) ==
    session.processing_complete /\ session.processed_data # None

\* the Generate Analysis Report handler
AfterReport(session) ==
    Put(session, "html_report",
        generate_report(session.processed_data,
                        Get(session, "processing_stats", <<>>),
                        Get(session, "fuzzy_algorithm", "ratio"),
                        Get(session, "fuzzy_threshold", 80)))

\* the Generate 20 Excel Files handler
AfterExcelFiles(session) ==
    Put(session, "excel_files",
        create_multiple_excel_files(session.processed_data, <<>>))

\* AfterReset that leaves processing_complete set
AfterReset_StillComplete(session) ==
    Del(Put(Put(session, "processed_data", None), "processing_stats", None),
        "html_report")

\* the Process New Files handler
AfterReset(session) ==
    Del(Put(Put(Put(session, "processed_data", None),
                             "processing_complete", FALSE),
                             "processing_stats", None),
        "html_report")

\* what the user of a session configures and uploads
SessionProcessors ==
    { NewDataProcessor(<<>>, "ratio", 80),
      NewDataProcessor(<<>>, "ratio", 100) }

SessionColumnsFiles ==
    {UnreadableFile}
    \cup {ReadableFile(DescriptionFrame(descriptions)) :
             descriptions \in { <<NaN>>, << <<"d", "o", "b">> >>,
                                << <<"d", "o">>, <<"d", "o", "b">> >> }}

SessionTableFiles ==
    {NoFile, ReadableFile(ReadFrame(<<"storage_id", "table_name">>,
                                    << [storage_id |-> <<"1">>,
                                        table_name |-> <<"A">>] >>))}

(***************************************************************************)
(* The state.                                                              *)
(***************************************************************************)
VARIABLES
    processor,         \* the DataProcessor the app constructed
    table_file,        \* the uploaded table file (optional)
    columns_file,      \* the uploaded columns file
    demographic_data,  \* process_files' local: the extracted rows
    result,            \* what process_files returned
    text,              \* the text handed to _fuzzy_match_demographic
    keywords,          \* the keyword list handed to it
    match,             \* what it returned
    processed_data,    \* the table handed to create_multiple_excel_files
    records_per_file,  \* the records_per_file handed to it
    excel_files,       \* what it returned
    calls,             \* the locals of the process_files calls in flight
    session_state,     \* st.session_state
    heap,              \* the frame objects process_files has allocated
    refs,              \* the objects its names refer to
    pc                 \* where the run is

fileVars == <<processor, table_file, columns_file>>
classifierVars == <<text, keywords, match>>
exportVars == <<processed_data, records_per_file, excel_files>>

objectVars == <<heap, refs>>

vars == <<fileVars, demographic_data, result, classifierVars, exportVars,
          objectVars, calls, session_state, pc>>

\* no frame object is allocated
NoObjects == heap = <<>> /\ refs = NoRefs

\* no call of process_files is in flight
NoCalls == calls = <<>>

\* the session holds what main initialised
SessionIdle == session_state = NewSession

\* no classification is under way
ClassifierIdle == text = <<>> /\ keywords = <<>> /\ match = FALSE

\* no export is under way
ExportIdle ==
    /\ processed_data = EmptyDataFrame
    /\ records_per_file = <<>>
    /\ excel_files = <<>>


\* a processor is constructed and the files are uploaded
Init ==
    /\ processor \in FileProcessors
    /\ table_file \in TableFiles
    /\ columns_file \in ColumnsFiles
    /\ demographic_data = EmptyDataFrame
    /\ result = NoResult
    /\ ClassifierIdle
    /\ ExportIdle
    /\ NoObjects
    /\ NoCalls
    /\ SessionIdle
    /\ pc = "ready"

\* the "Process Data" button: processor.process_files(table_file, columns_file)
ProcessFiles ==
    /\ pc = "ready"
    /\ demographic_data' = ExtractedBy(processor, table_file, columns_file)
    /\ result' = ReturnedFor(processor, table_file, columns_file,
                             demographic_data')
    /\ heap' = ObjectsAfter(table_file, columns_file, demographic_data').heap
    /\ refs' = ObjectsAfter(table_file, columns_file, demographic_data').refs
    /\ pc' = "done"
    /\ UNCHANGED <<fileVars, classifierVars, exportVars, calls, session_state>>

\* the values a caller writes into the returned table
WrittenValues == {NaN, <<"x">>}

\* the caller changes the table process_files returned, in place
ChangeReturnedTable ==
    /\ pc = "done"
    /\ result.success
    /\ \E name \in Range(result.data.columns), value \in WrittenValues :
           heap' = AssignColumn(heap, refs.merged_data, name, value)
    /\ pc' = "changed"
    /\ UNCHANGED <<fileVars, demographic_data, result, classifierVars,
                   exportVars, refs, calls, session_state>>

Next == ProcessFiles \/ ChangeReturnedTable

Spec == Init /\ [][Next]_vars

\* a processor is constructed; a text and a keyword list are at hand
InitClassifier ==
    /\ processor \in ClassifierProcessors
    /\ table_file = NoFile
    /\ columns_file = NoFile
    /\ demographic_data = EmptyDataFrame
    /\ result = NoResult
    /\ text \in Texts
    /\ keywords \in KeywordLists
    /\ match = FALSE
    /\ ExportIdle
    /\ NoObjects
    /\ NoCalls
    /\ SessionIdle
    /\ pc = "classify"

\* one call of _fuzzy_match_demographic(text, keywords)
FuzzyMatch ==
    /\ pc = "classify"
    /\ match' = fuzzy_match_demographic(processor, text, keywords)
    /\ pc' = "classified"
    /\ UNCHANGED <<fileVars, demographic_data, result, text, keywords,
                   exportVars, objectVars, calls, session_state>>

NextClassifier == FuzzyMatch

SpecClassifier == InitClassifier /\ [][NextClassifier]_vars

\* a processed table and a records_per_file argument are at hand
InitExport ==
    /\ processor \in FileProcessors
    /\ table_file = NoFile
    /\ columns_file = NoFile
    /\ demographic_data = EmptyDataFrame
    /\ result = NoResult
    /\ ClassifierIdle
    /\ processed_data \in ProcessedFrames
    /\ records_per_file \in RecordsPerFileArguments
    /\ excel_files = <<>>
    /\ NoObjects
    /\ NoCalls
    /\ SessionIdle
    /\ pc = "export"

\* one call of create_multiple_excel_files(processed_data, records_per_file)
CreateExcelFiles ==
    /\ pc = "export"
    /\ excel_files' = create_multiple_excel_files(processed_data,
                                                  records_per_file)
    /\ pc' = "exported"
    /\ UNCHANGED <<fileVars, demographic_data, result, classifierVars,
                   processed_data, records_per_file, objectVars, calls,
                   session_state>>

NextExport == CreateExcelFiles

SpecExport == InitExport /\ [][NextExport]_vars

(***************************************************************************)
(* Calls of process_files on one processor, each with its own files, that  *)
(* run interleaved: a step of a call is its extraction or its return.      *)
(***************************************************************************)
InitCalls ==
    /\ processor \in CallProcessors
    /\ table_file = NoFile
    /\ columns_file = NoFile
    /\ demographic_data = EmptyDataFrame
    /\ result = NoResult
    /\ ClassifierIdle
    /\ ExportIdle
    /\ NoObjects
    /\ SessionIdle
    /\ calls \in [1..Callers -> {NewCall(t, c) : t \in CallTableFiles,
                                                  c \in CallColumnsFiles}]
    /\ pc = "calls"

\* call i reads its files and extracts the demographic rows
CallExtracts(i) ==
    /\ pc = "calls"
    /\ calls[i].pc = "called"
    /\ calls' = [calls EXCEPT
                    ![i].demographic_data =
                        ExtractedBy(processor, Locals(calls, i).table_file,
                                    Locals(calls, i).columns_file),
                    ![i].pc = "extracted"]
    /\ UNCHANGED <<fileVars, demographic_data, result, classifierVars,
                   exportVars, objectVars, pc, session_state>>

\* call i merges, summarises and returns
CallReturns(i) ==
    /\ pc = "calls"
    /\ calls[i].pc = "extracted"
    /\ calls' = [calls EXCEPT
                    ![i].result =
                        ReturnedFor(processor, Locals(calls, i).table_file,
                                    Locals(calls, i).columns_file,
                                    Locals(calls, i).demographic_data),
                    ![i].pc = "returned"]
    /\ processor' = SelfAfter(processor)
    /\ UNCHANGED <<table_file, columns_file, demographic_data, result,
                   classifierVars, exportVars, objectVars, pc, session_state>>

NextCalls == \E i \in 1..Callers : CallExtracts(i) \/ CallReturns(i)

SpecCalls == InitCalls /\ [][NextCalls]_vars

(***************************************************************************)
(* A session of the app: every press of a button runs main once, with the  *)
(* widgets as the user left them and the session state of the run before.  *)
(***************************************************************************)
InitSession ==
    /\ processor \in SessionProcessors
    /\ table_file = NoFile
    /\ columns_file = NoFile
    /\ demographic_data = EmptyDataFrame
    /\ result = NoResult
    /\ ClassifierIdle
    /\ ExportIdle
    /\ NoObjects
    /\ NoCalls
    /\ SessionIdle
    /\ pc = "session"

\* Process Data, with the files and the configuration of this run
ProcessData ==
    /\ pc \in {"session", "processed", "reported", "files", "reset"}
    /\ \E p \in SessionProcessors, t \in SessionTableFiles,
          c \in SessionColumnsFiles :
           /\ processor' = p
           /\ table_file' = t
           /\ columns_file' = c
           /\ demographic_data' = ExtractedBy(p, t, c)
           /\ result' = ReturnedFor(p, t, c, demographic_data')
           /\ session_state' =
                  AfterProcess(session_state, result', p.fuzzy_algorithm,
                               p.fuzzy_threshold, t)
    /\ pc' = "processed"
    /\ UNCHANGED <<classifierVars, exportVars, objectVars, calls>>

\* Generate Analysis Report, offered in the results section
GenerateReport ==
    /\ pc \in {"session", "processed", "reported", "files", "reset"}
    /\ ResultsShown(session_state)
    /\ session_state' = AfterReport(session_state)
    /\ pc' = "reported"
    /\ UNCHANGED <<fileVars, demographic_data, result, classifierVars,
                   exportVars, objectVars, calls>>

\* Generate 20 Excel Files, offered when no table file was provided
GenerateExcelFiles ==
    /\ pc \in {"session", "processed", "reported", "files", "reset"}
    /\ ResultsShown(session_state)
    /\ ~Get(session_state, "table_file_provided", FALSE)
    /\ session_state' = AfterExcelFiles(session_state)
    /\ pc' = "files"
    /\ UNCHANGED <<fileVars, demographic_data, result, classifierVars,
                   exportVars, objectVars, calls>>

\* Process New Files, offered in the results section
ProcessNewFiles ==
    /\ pc \in {"session", "processed", "reported", "files", "reset"}
    /\ ResultsShown(session_state)
    /\ session_state' = AfterReset(session_state)
    /\ pc' = "reset"
    /\ UNCHANGED <<fileVars, demographic_data, result, classifierVars,
                   exportVars, objectVars, calls>>

NextSession ==
    ProcessData \/ GenerateReport \/ GenerateExcelFiles \/ ProcessNewFiles

SpecSession == InitSession /\ [][NextSession]_vars

(***************************************************************************)
(* Properties.                                                             *)
(***************************************************************************)
\* the frame process_files read the columns file into
columns_df == columns_file.df

\* process_files got as far as extracting from the columns frame
Extracted ==
    pc = "done" /\ columns_file.kind = "file" /\ table_file.kind # "unreadable"

\* process_files returned a table and its stats
Succeeded == pc = "done" /\ result.success

\* some keyword, lower-cased, is a literal substring of the lower-cased text
SomeKeywordIsSubstring ==
    \E n \in DOMAIN keywords : IsSubstring(Lower(keywords[n]), Lower(text))

\* C1: whenever a lower-cased keyword is a literal substring of the
\* lower-cased text, _fuzzy_match_demographic reports a match, whatever the
\* algorithm and the threshold.
C1_SubstringAlwaysMatches ==
    (pc = "classified" /\ SomeKeywordIsSubstring) => match

\* the placeholder of a record that no reference row matches
NoMatchFound ==
    <<"N", "o", "_", "M", "a", "t", "c", "h", "_", "F", "o", "u", "n", "d">>

\* the join key of an output record: its storage_id, missing when the
\* record has no such column
JoinKey(row) == IF "storage_id" \in DOMAIN row THEN row["storage_id"] ELSE NaN

\* the table names the reference table gives a key
ReferenceNames(table_df, key) ==
    {table_df.rows[n]["table_name"] :
        n \in {m \in DOMAIN table_df.rows :
                  /\ {"storage_id", "table_name"} \subseteq DOMAIN table_df.rows[m]
                  /\ table_df.rows[m]["storage_id"] = key}}

\* C2: with a table file, every output record whose join key occurs in the
\* reference table carries that key's table name and matched = true, and
\* every other output record carries "No_Match_Found" and matched = false.
C2_JoinedWithReference ==
    (Succeeded /\ table_file.kind = "file") =>
        \A n \in DOMAIN result.data.rows :
            LET row == result.data.rows[n]
                names == IF JoinKey(row) = NaN THEN {}
                         ELSE ReferenceNames(table_file.df, JoinKey(row))
            IN  IF names # {}
                THEN row["table_name"] \in names /\ row["matched"] = True
                ELSE row["table_name"] = NoMatchFound /\ row["matched"] # True

\* the rows whose attr_description the classifier matches
DescriptionMask ==
    identify_demographic_rows_by_description(processor, columns_df,
                                             "attr_description")

\* C3: when the columns table has an attr_description column, the extracted
\* rows are exactly those whose description the classifier matches, and the
\* extraction is empty when no description matches.
C3_DescriptionAloneDecides ==
    (Extracted /\ "attr_description" \in Range(columns_df.columns)) =>
        IF MaskAny(DescriptionMask)
        THEN demographic_data = SelectRows(columns_df, DescriptionMask)
        ELSE DfEmpty(demographic_data)

\* C4: the extraction is an order-preserving sub-sequence of the input: no
\* more records than the input, every record an input record, input order.
C4_ExtractionIsSubsequence ==
    Extracted =>
        /\ DfLen(demographic_data) <= DfLen(columns_df)
        /\ Len(demographic_data.index) = DfLen(demographic_data)
        /\ \A n \in DOMAIN demographic_data.rows :
              /\ demographic_data.index[n] \in 0..(DfLen(columns_df) - 1)
              /\ demographic_data.rows[n]
                     = columns_df.rows[demographic_data.index[n] + 1]
        /\ \A n \in 1..(DfLen(demographic_data) - 1) :
              demographic_data.index[n] < demographic_data.index[n + 1]

\* C4 witness: of two input rows the extraction kept the second alone
C4_Witness ==
    /\ Extracted
    /\ DfLen(columns_df) = 2
    /\ demographic_data.index = <<1>>

\* C5: every column of the input columns table has, in each output record,
\* the value it had in the input record the output record came from.
C5_InputColumnsUnchanged ==
    Succeeded =>
        \A n \in DOMAIN result.data.rows :
            \A c \in Range(columns_df.columns) :
                result.data.rows[n][c]
                    = columns_df.rows[result.data.index[n] + 1][c]

\* C6: without a table file every output record has table_name "N/A" and
\* matched = true, matched_records is the record count and
\* unmatched_records is 0.
C6_NoTableFileAllMatched ==
    (Succeeded /\ table_file.kind = "none") =>
        /\ \A n \in DOMAIN result.data.rows :
              /\ result.data.rows[n]["table_name"] = NA
              /\ result.data.rows[n]["matched"] = True
        /\ result.stats.matched_records = DfLen(result.data)
        /\ result.stats.unmatched_records = 0

\* C6 witness: a run without a table file that returned two records
C6_Witness ==
    /\ Succeeded
    /\ table_file.kind = "none"
    /\ DfLen(result.data) = 2

\* the score of the text against keyword number n of the list
KeywordScore(n) ==
    Score(processor.fuzzy_algorithm, Lower(text), Lower(keywords[n]))

\* the orderings of a list
Orderings(list) ==
    {[n \in DOMAIN list |-> list[p[n]]] :
        p \in {q \in [DOMAIN list -> DOMAIN list] :
                  \A i, j \in DOMAIN list : q[i] = q[j] => i = j}}

\* C7: when no keyword is a substring of the text, the classifier matches
\* iff some keyword scores at least the threshold, and the answer is the
\* same for every ordering of the keyword list.
C7_MatchIffSomeScoreReaches ==
    (pc = "classified" /\ ~SomeKeywordIsSubstring) =>
        /\ match <=> \E n \in DOMAIN keywords :
                         KeywordScore(n) >= processor.fuzzy_threshold
        /\ \A list \in Orderings(keywords) :
              fuzzy_match_demographic(processor, text, list) = match

\* C7 witness: no keyword is a substring, the first keyword scores under
\* the threshold and the second reaches it
C7_Witness ==
    /\ pc = "classified"
    /\ ~SomeKeywordIsSubstring
    /\ Len(keywords) = 2
    /\ KeywordScore(1) < processor.fuzzy_threshold
    /\ KeywordScore(2) >= processor.fuzzy_threshold
    /\ match

\* a description that is null, empty or only whitespace
IsBlank(v) == v = NaN \/ \A i \in DOMAIN v : IsSpace(v[i])

\* C8: a record whose description is empty, null or whitespace-only is
\* never classified as demographic.
C8_BlankNeverDemographic ==
    (Extracted /\ "attr_description" \in Range(columns_df.columns)) =>
        \A n \in DOMAIN columns_df.rows :
            IsBlank(columns_df.rows[n]["attr_description"])
                => ~DescriptionMask[n]

\* the frame of some of the rows of the columns file
Part(from, to) == ReadFrame(columns_df.columns, SubSeq(columns_df.rows, from, to))

\* C9: extracting the concatenation of two tables gives the concatenation
\* of their extractions: a record is kept or dropped on its own.
C9_ExtractionDistributes ==
    Extracted =>
        \A k \in 0..DfLen(columns_df) :
            demographic_data.rows =
                extract_demographic_data(processor, Part(1, k)).rows
                \o extract_demographic_data(processor,
                                            Part(k + 1, DfLen(columns_df))).rows

\* C10: the merge output has exactly one record per extracted record, in
\* the extraction's order, also when the reference table repeats a key.
C10_MergeKeepsEveryRecord ==
    Succeeded =>
        /\ DfLen(result.data) = DfLen(demographic_data)
        /\ result.data.index = demographic_data.index
        /\ \A n \in DOMAIN demographic_data.rows :
              \A c \in Range(demographic_data.columns) \ {"table_name", "matched"} :
                  result.data.rows[n][c] = demographic_data.rows[n][c]

\* C10 witness: two records merged against a reference table that has the
\* same key in two rows
C10_Witness ==
    /\ Succeeded
    /\ table_file.kind = "file"
    /\ DfLen(table_file.df) = 2
    /\ table_file.df.rows[1]["storage_id"] = table_file.df.rows[2]["storage_id"]
    /\ DfLen(result.data) = 2
    /\ "storage_id" \in Range(columns_df.columns)

\* C11: if no record of the columns table is classified demographic, the
\* extraction is the empty table and process_files returns the failure
\* 'No demographic data found in columns file', without data and stats.
C11_NothingDemographicFails ==
    (Extracted /\ ~MaskAny(FallbackMask(processor, columns_df))) =>
        /\ demographic_data = EmptyDataFrame
        /\ result = [success |-> FALSE,
                     error |-> "No demographic data found in columns file"]

\* C11 witness: a columns table of two records, none of them demographic
C11_Witness ==
    /\ Extracted
    /\ DfLen(columns_df) = 2
    /\ ~MaskAny(FallbackMask(processor, columns_df))
    /\ ~result.success

\* C12: whatever the files and the processor, process_files returns either
\* success = true with data and stats or success = false with an error
\* message; nothing is raised past it.
C12_AlwaysReturnsAResult ==
    pc = "done" =>
        \/ DOMAIN result = {"success", "data", "stats"} /\ result.success
        \/ DOMAIN result = {"success", "error"} /\ ~result.success

\* C12 witness: the columns file cannot be read and the failure is returned
C12_Witness ==
    /\ pc = "done"
    /\ columns_file.kind = "unreadable"
    /\ DOMAIN result = {"success", "error"}
    /\ ~result.success
    /\ result.error = "Processing error: Error reading columns data"

\* the table file was read and lacks the join-key or the table-name column
TableLacksAColumn ==
    /\ table_file.kind = "file"
    /\ ~({"storage_id", "table_name"} \subseteq Range(table_file.df.columns))

\* C13: when the table file lacks the join-key column or the table-name
\* column, process_files fails (with a configuration error) and extracts and
\* merges nothing.
C13_MissingKeyColumnFails ==
    (pc = "done" /\ columns_file.kind = "file" /\ TableLacksAColumn) =>
        /\ ~result.success
        /\ demographic_data = EmptyDataFrame

\* str(col): the characters of a column label
ColumnName(col) ==
    CASE col = "attr_description" ->
             <<"a", "t", "t", "r", "_", "d", "e", "s", "c", "r", "i", "p", "t",
               "i", "o", "n">>
      [] col = "attr_name" -> <<"a", "t", "t", "r", "_", "n", "a", "m", "e">>
      [] col = "storage_id" ->
             <<"s", "t", "o", "r", "a", "g", "e", "_", "i", "d">>
      [] col = "table_name" ->
             <<"t", "a", "b", "l", "e", "_", "n", "a", "m", "e">>
      [] col = "matched" -> <<"m", "a", "t", "c", "h", "e", "d">>

\* DataProcessor._identify_demographic_columns: the column labels whose name
\* matches a taxonomy entry or a keyword, in order
RECURSIVE identify_demographic_columns(_, _)
identify_demographic_columns(self, columns) ==
    IF columns = <<>> THEN <<>>
    ELSE (IF \E keyword \in Range(self.demographic_data_types
                                     \o self.demographic_keywords) :
                fuzzy_match_demographic(self, Lower(ColumnName(Head(columns))),
                                        <<keyword>>)
          THEN <<Head(columns)>> ELSE <<>>)
         \o identify_demographic_columns(self, Tail(columns))

\* the columns of the columns file whose names are demographic
DemographicColumns ==
    Range(identify_demographic_columns(processor, columns_df.columns))

\* C14: when the columns table has no attr_description column, the selected
\* records are those with a non-null value in a column whose name is
\* demographic, and the output has only the join-key column and those
\* columns.
C14_StructuralModeOnColumnNames ==
    (Extracted /\ "attr_description" \notin Range(columns_df.columns)) =>
        /\ Range(demographic_data.columns)
               \subseteq DemographicColumns \cup {"storage_id"}
        /\ \A n \in DOMAIN columns_df.rows :
               (n - 1) \in Range(demographic_data.index)
                   <=> \E c \in DemographicColumns : columns_df.rows[n][c] # NaN

\* C15: processing a columns table with zero rows completes and reports
\* extraction_percentage = 0.
C15_EmptyTableReportsZeroPercent ==
    (Extracted /\ DfLen(columns_df) = 0) =>
        /\ "stats" \in DOMAIN result
        /\ result.stats.extraction_percentage = 0

\* the distance of two integers
Distance(a, b) == IF a >= b THEN a - b ELSE b - a

OutputTableNames ==
    {result.data.rows[n]["table_name"] : n \in DOMAIN result.data.rows}
        \ {NA, NoMatchFound}

\* C17: the stats of every successful run contain unique_tables, the number
\* of distinct table_name values of the output that are not placeholders.
C17_StatsCountUniqueTables ==
    Succeeded =>
        /\ "unique_tables" \in DOMAIN result.stats
        /\ result.stats.unique_tables = Cardinality(OutputTableNames)

\* the positions of the reference rows that have a key
ReferenceRows(table_df, key) ==
    {m \in DOMAIN table_df.rows :
        /\ {"storage_id", "table_name"} \subseteq DOMAIN table_df.rows[m]
        /\ table_df.rows[m]["storage_id"] = key}

\* the least number of a non-empty set
MinOf(S) == CHOOSE x \in S : \A y \in S : x <= y

\* C18: when several reference rows have the same key, every output record
\* with that key carries the table name of the first of them.
C18_FirstReferenceRowWins ==
    (Succeeded /\ table_file.kind = "file") =>
        \A n \in DOMAIN result.data.rows :
            Cardinality(ReferenceRows(table_file.df,
                                      JoinKey(result.data.rows[n]))) >= 2
            => result.data.rows[n]["table_name"]
                   = table_file.df.rows[
                         MinOf(ReferenceRows(table_file.df,
                                             JoinKey(result.data.rows[n])))
                     ]["table_name"]

\* the original columns other than the join key and the two added ones
IsRemainingColumn(c) == c \notin {"table_name", "matched", "storage_id"}

\* C19: the output columns are table_name, matched, the join-key column,
\* then the remaining original columns in their original order, with and
\* without a reference table.
C19_OutputColumnOrder ==
    Succeeded =>
        result.data.columns
            = <<"table_name", "matched">>
              \o (IF "storage_id" \in Range(columns_df.columns)
                  THEN <<"storage_id">> ELSE <<>>)
              \o SelectSeq(columns_df.columns, IsRemainingColumn)

\* the four algorithm names _fuzzy_match_demographic knows
KnownAlgorithms ==
    {"ratio", "partial_ratio", "token_sort_ratio", "token_set_ratio"}

\* what the classifier returns for the same text, keywords and threshold
\* under another algorithm name
MatchUnder(fuzzy_algorithm) ==
    fuzzy_match_demographic([processor EXCEPT !.fuzzy_algorithm = fuzzy_algorithm],
                            text, keywords)

\* C20: under an algorithm name that is none of the four, classification
\* gives what it gives under 'ratio', for every text, keyword list and
\* threshold.
C20_UnknownAlgorithmIsRatio ==
    (pc = "classified" /\ processor.fuzzy_algorithm \notin KnownAlgorithms) =>
        match = MatchUnder("ratio")

\* C20 witness: a classification under an unknown name where partial_ratio
\* would have given the other answer
C20_Witness ==
    /\ pc = "classified"
    /\ processor.fuzzy_algorithm \notin KnownAlgorithms
    /\ match = MatchUnder("ratio")
    /\ match # MatchUnder("partial_ratio")

\* the processor with another threshold
AtThreshold(t) == [processor EXCEPT !.fuzzy_threshold = t]

\* C21: raising the threshold never adds a match, so in content mode (the
\* columns table has an attr_description column) the rows extracted at a
\* threshold are among the rows extracted at every lower threshold.
C21_ThresholdMonotone ==
    (Extracted /\ "attr_description" \in Range(columns_df.columns)) =>
        \A t \in Thresholds :
            t <= processor.fuzzy_threshold =>
                Range(demographic_data.index)
                    \subseteq Range(extract_demographic_data(AtThreshold(t),
                                                             columns_df).index)

\* C22: extraction is idempotent: extracting from the output of an
\* extraction, with the same processor, returns that output unchanged.
C22_ExtractionIdempotent ==
    Extracted =>
        extract_demographic_data(processor, demographic_data) = demographic_data

\* C22 witness: an extraction that dropped a record and kept another
C22_Witness ==
    /\ Extracted
    /\ DfLen(columns_df) = 2
    /\ DfLen(demographic_data) = 1
    /\ extract_demographic_data(processor, demographic_data) = demographic_data

\* C28: in every successful result the counts agree: total_records is the
\* number of records of data and of extracted rows, matched + unmatched is
\* total_records, extracted + non-demographic is the number of input rows,
\* and no count is negative.
C28_CountsConsistent ==
    Succeeded =>
        /\ result.stats.total_records = DfLen(result.data)
        /\ result.stats.total_records = result.stats.demographic_rows_extracted
        /\ result.stats.matched_records + result.stats.unmatched_records
               = result.stats.total_records
        /\ result.stats.demographic_rows_extracted
               + result.stats.non_demographic_rows
               = result.stats.original_columns_total
        /\ result.stats.original_columns_total = DfLen(columns_df)
        /\ \A count \in {"total_records", "demographic_rows_extracted",
                         "matched_records", "unmatched_records",
                         "non_demographic_rows", "original_columns_total",
                         "original_table_total"} :
               result.stats[count] >= 0

\* C28 witness: one of two records extracted, with a table file of two rows
C28_Witness ==
    /\ Succeeded
    /\ result.stats.total_records = 1
    /\ result.stats.non_demographic_rows = 1
    /\ result.stats.original_table_total = 2

\* C26: with records_per_file = None the processed data is split into 20
\* files, for every non-empty processed table.
C26_TwentyFiles ==
    (pc = "exported" /\ records_per_file = <<>> /\ DfLen(processed_data) > 0) =>
        Len(excel_files) = 20

\* the records of the files, in file order
RECURSIVE AllRecords(_)
AllRecords(files) ==
    IF files = <<>> THEN <<>>
    ELSE Head(files).records \o AllRecords(Tail(files))

\* C27: the files partition the processed records: no file is empty, the
\* files in order are contiguous and hold exactly the input records in
\* their order, the file numbers are 1..k, and k <= 20 for None.
C27_FilesPartitionRecords ==
    pc = "exported" =>
        /\ \A f \in DOMAIN excel_files :
              /\ excel_files[f].records # <<>>
              /\ excel_files[f].file_num = f
              /\ excel_files[f].first_record
                     = (IF f = 1 THEN 1 ELSE excel_files[f - 1].last_record + 1)
              /\ Len(excel_files[f].records)
                     = excel_files[f].last_record - excel_files[f].first_record + 1
        /\ AllRecords(excel_files) = SheetRecords(processed_data.rows)
        /\ records_per_file = <<>> => Len(excel_files) <= 20

\* C27 witness: 41 records split by None into 13 files of 3 and one of 2
C27_Witness ==
    /\ pc = "exported"
    /\ records_per_file = <<>>
    /\ DfLen(processed_data) = 41
    /\ Len(excel_files) = 14
    /\ Len(excel_files[14].records) = 2

\* process_files has returned, or its caller has changed the returned table
Returned == pc \in {"done", "changed"}

\* C24: process_files never changes its input tables in place: when it has
\* returned, the columns table and the reference table are as they were
\* read, the returned table is an object of its own, and a later change to
\* the returned table leaves the input tables as they were.
C24_InputTablesUntouched ==
    (Returned /\ columns_file.kind = "file" /\ table_file.kind # "unreadable") =>
        /\ heap[refs.columns_df] = columns_file.df
        /\ table_file.kind = "file" => heap[refs.table_df] = table_file.df
        /\ result.success =>
              /\ refs.merged_data \notin {refs.columns_df, refs.table_df,
                                          refs.demographic_data}
              /\ pc = "done" => heap[refs.merged_data] = result.data
              /\ heap[refs.demographic_data] = demographic_data

\* C24 witness: every row was extracted, and the caller then overwrote a
\* column of the returned table
C24_Witness ==
    /\ pc = "changed"
    /\ table_file.kind = "file"
    /\ DfLen(columns_df) = 2
    /\ demographic_data = columns_df
    /\ heap[refs.merged_data] # result.data
    /\ heap[refs.columns_df] = columns_df

ReturnedAsAlone ==
    \A i \in 1..Callers :
        (calls # <<>> /\ calls[i].pc = "returned") =>
            calls[i].result = process_files(processor, calls[i].table_file,
                                            calls[i].columns_file)

\* C25: interleaved process_files calls, each on its own tables, each
\* return the result they would return if run alone, and no step of a call
\* changes the processor's keywords, taxonomy, algorithm or threshold.
C25_CallsIndependent ==
    []ReturnedAsAlone /\ [][processor' = processor]_vars

\* C25 witness: the second call ran from entry to return while the first
\* was between its extraction and its return, on other files and with
\* another outcome
C25_Witness ==
    /\ calls # <<>>
    /\ calls[1].pc = "extracted" /\ calls[2].pc = "returned"
    /\ calls[1].columns_file # calls[2].columns_file
    /\ calls[2].result.success
    /\ ~DfEmpty(calls[1].demographic_data)
    /\ calls[1].demographic_data # calls[2].demographic_data

\* the session keys a processing run stores its outcome under
OutcomeKeys == {"processed_data", "processing_stats", "processing_complete"}

\* a Process Data run has just failed
ProcessFailed == pc' = "processed" /\ ~result'.success

\* C29: in every session state reached by process, generate-report, export
\* and reset steps, processing_complete implies that processed_data is not
\* None, and a failed process run leaves processed_data, processing_stats
\* and processing_complete as they were.
C29_CompleteImpliesData ==
    /\ [](pc \in {"session", "processed", "reported", "files", "reset"} =>
            (session_state.processing_complete =>
                session_state.processed_data # None))
    /\ [][ProcessFailed =>
            Under(session_state', OutcomeKeys) = Under(session_state, OutcomeKeys)]_vars

\* C29 witness: a process run failed while the results of an earlier run
\* are stored
C29_Witness ==
    /\ pc = "processed"
    /\ ~result.success
    /\ session_state.processing_complete
    /\ session_state.processed_data # None
    /\ "processing_stats" \in DOMAIN session_state

\* an HTML report is stored in the session and offered for download
ReportOffered ==
    /\ pc \in {"session", "processed", "reported", "files", "reset"}
    /\ ResultsShown(session_state)
    /\ "html_report" \in DOMAIN session_state

=============================================================================
